---- MODULE Spec2Model ----
(***************************************************************************)
(* A model of the flask-login-app repository: config.py (environment-      *)
(* driven configuration), forms.py (form validation, the password policy)  *)
(* and app.py (the request guard and the route handlers).                  *)
(*                                                                         *)
(* models.py (the User table, the password setter and check_password) is   *)
(* not among the source files; the definitions marked "models.py" below    *)
(* follow the specification's sections 3 and 4.1.                          *)
(*                                                                         *)
(* Scope of the request model:                                             *)
(*  - a request is (client address, route, method, CSRF token validity,     *)
(*    form fields, ?next= argument); methods a route does not accept are   *)
(*    not issued;                                                          *)
(*  - the limiter's default_limits (200/day, 50/hour, app.py:71-80) apply  *)
(*    to the routes without a decorator; the model does not count them;    *)
(*  - the "remember" checkbox only sets the lifetime of a cookie and is    *)
(*    not part of the state.                                               *)
(***************************************************************************)
EXTENDS Integers, Sequences, FiniteSets, TLC

VARIABLES
    \* ---- configuration and start-up (config.py, app.py:14-15)
    env,          \* the process environment: FLASK_ENV, SECRET_KEY, MIN_PASSWORD_LENGTH
    phase,        \* "init" before app.config.from_object, "serving" after, "failed" on a start-up error
    appcfg,       \* app.config once loaded
    candidate,    \* a candidate password handed to PasswordValidator
    verdict,      \* what PasswordValidator answered for it
    \* ---- the running application (app.py, forms.py, models.py)
    users,        \* the User table: a sequence of rows, id = index
    rawpw,        \* per row, the raw password last stored through the password setter (history)
    session,      \* client -> user id held by its session cookie, 0 when Anonymous
    loginHits,    \* client -> requests the limiter counted for /login in the current minute
    registerHits, \* client -> requests the limiter counted for /register in the current hour
    pending,      \* client -> a registration that passed validation and has not committed yet
    req,          \* the request being answered, NoRequest between requests
    resp          \* its response, NoResponse between requests

cfgvars == <<env, phase, appcfg, candidate, verdict>>

webvars == <<users, rawpw, session, loginHits, registerHits, pending, req, resp>>

vars == <<env, phase, appcfg, candidate, verdict,
          users, rawpw, session, loginHits, registerHits, pending, req, resp>>

(***************************************************************************)
(* Characters and passwords.  A password is a sequence of one-character    *)
(* strings.                                                                *)
(***************************************************************************)
UpperChars == {"A", "P", "S"}

LowerChars == {"a", "b", "c", "d", "e", "o", "r", "s", "t", "w"}

DigitChars == {"1", "2", "3", "9"}

\* forms.py:33, the character class of the regular expression
SpecialChars == {"!", "@", "#", "$", "%", "^", "&", "*", "(", ")", "-", "_",
                 "=", "+", "{", "}", ";", ":", ",", "<", ".", ">"}

\* printable characters that are in none of the four classes
OtherChars == {"~", " "}

isupper(c) == c \in UpperChars

islower(c) == c \in LowerChars

isdigit(c) == c \in DigitChars

\* re.search(r'[!@#$%^&*()\-_=+{};:,<.>]', c) on one character
isspecial(c) == c \in SpecialChars

\* the literal 12 of forms.py:17
HardMinLength == 12

\* PasswordValidator.__call__: "ok", or the first rule that fails
PasswordValidator(password) ==
    IF Len(password) < HardMinLength THEN "length"
    ELSE IF ~\E i \in 1..Len(password) : isupper(password[i]) THEN "uppercase"
    ELSE IF ~\E i \in 1..Len(password) : islower(password[i]) THEN "lowercase"
    ELSE IF ~\E i \in 1..Len(password) : isdigit(password[i]) THEN "digit"
    ELSE IF ~\E i \in 1..Len(password) : isspecial(password[i]) THEN "special"
    ELSE "ok"

(***************************************************************************)
(* Configuration (config.py) and start-up (app.py:14-15).                  *)
(***************************************************************************)
Unset == "<unset>"

DevKey == "dev-key-for-development-only"

\* os.getenv(name, default)
getenv(e, name, default) == IF e[name] = Unset THEN default ELSE e[name]

\* int(s) for the decimal strings the environment holds
int(s) == CASE s = "8" -> 8 [] s = "12" -> 12 [] s = "16" -> 16

\* Config: the class attributes read from the environment
Config(e) ==
    [FLASK_ENV           |-> getenv(e, "FLASK_ENV", "development"),
     SECRET_KEY          |-> getenv(e, "SECRET_KEY", DevKey),
     MIN_PASSWORD_LENGTH |-> int(getenv(e, "MIN_PASSWORD_LENGTH", "12"))]

\* get_config(): the configuration CLASS for FLASK_ENV, DevelopmentConfig by default
get_config(e) ==
    LET flask_env == getenv(e, "FLASK_ENV", "development")
    IN  IF flask_env = "production" THEN "ProductionConfig" ELSE "DevelopmentConfig"

\* ProductionConfig.__init__: raises when the environment variable itself
\* holds the development key (os.getenv without a default: None when unset)
ProductionConfigInitRaises(e) == e.SECRET_KEY = DevKey

\* app.config.from_object(get_config()): the class is passed, not an
\* instance, and from_object only reads upper-case attributes; no __init__ runs
FromObjectInstantiates(cls) == FALSE

Startup ==
    /\ phase = "init"
    /\ LET cls == get_config(env)
       IN  IF cls = "ProductionConfig" /\ FromObjectInstantiates(cls)
              /\ ProductionConfigInitRaises(env)
           THEN /\ phase' = "failed"
                /\ appcfg' = appcfg
           ELSE /\ phase' = "serving"
                /\ appcfg' = Config(env)
    /\ UNCHANGED <<env, candidate, verdict>>
    /\ UNCHANGED webvars

\* a form field carrying `candidate` is validated by PasswordValidator
ValidatePassword ==
    /\ phase = "serving"
    /\ verdict = "none"
    /\ verdict' = PasswordValidator(candidate)
    /\ UNCHANGED <<env, phase, appcfg, candidate>>
    /\ UNCHANGED webvars

\* ---- the inputs of the configuration specification
FlaskEnvs == {Unset, "development", "production", "staging"}

SecretKeys == {Unset, DevKey, "9f2c-prod-secret"}

MinLengths == {Unset, "8", "12", "16"}

MaxPad == 16

CharSamples == <<"A", "a", "1", "!", "~">>

\* the characters of CharSamples whose index is in S, in order
RECURSIVE Pick(_, _)
Pick(S, i) ==
    IF i > Len(CharSamples) THEN <<>>
    ELSE (IF i \in S THEN <<CharSamples[i]>> ELSE <<>>) \o Pick(S, i + 1)

Repeat(c, k) == [i \in 1..k |-> c]

Candidates ==
    { Pick(S, 1) \o Repeat(CharSamples[p], k) :
        S \in SUBSET (1..Len(CharSamples)), p \in 1..Len(CharSamples), k \in 0..MaxPad }

NoConfig == [FLASK_ENV |-> Unset, SECRET_KEY |-> Unset, MIN_PASSWORD_LENGTH |-> 0]


(***************************************************************************)
(* The data of the running application.                                    *)
(***************************************************************************)
\* remote addresses, the limiter's key (get_remote_address) and one browser each
Clients == {"10.0.0.1", "10.0.0.2"}

Anonymous == 0

\* no registration of the client is in flight
NoPending == [username |-> "", email |-> [local |-> "", domain |-> ""], password |-> <<>>]

\* an e-mail address local@domain; an empty part makes it malformed
EmailA == [local |-> "al", domain |-> "x.io"]

EmailB == [local |-> "bo", domain |-> "x.io"]

EmailMalformed == [local |-> "al", domain |-> ""]

EmailBlank == [local |-> "", domain |-> ""]

PwA == <<"P", "a", "s", "s", "w", "o", "r", "d", "1", "2", "3", "!">>

PwB == <<"S", "e", "c", "r", "e", "t", "c", "o", "d", "e", "9", "#">>

PwWeak == <<"a", "b", "c", "1">>

PwBlank == <<>>

\* ---- models.py: the password hash and the table's unique constraints
\* the salts generate_password_hash may draw
Salts == {<<"$", "a">>}

CharTable ==
    <<"A", "P", "S", "a", "b", "c", "d", "e", "o", "r", "s", "t", "w",
      "1", "2", "3", "9", "!", "#", "$", "~", " ">>

CharCode ==
    [ch \in {CharTable[i] : i \in 1..Len(CharTable)} |->
        CHOOSE i \in 1..Len(CharTable) : CharTable[i] = ch]

ord(c) == CharCode[c]

\* a digest of a character sequence, folded left to right
RECURSIVE Digest(_, _, _)
Digest(s, i, h) ==
    IF i > Len(s) THEN h ELSE Digest(s, i + 1, (h * 31 + ord(s[i])) % 65521)

\* User.password setter: the salted hash that is stored, never the plaintext
generate_password_hash(password, salt) ==
    [salt |-> salt, digest |-> Digest(salt \o password, 1, 7)]

\* User.check_password: hash the candidate with the row's salt and compare
check_password(user, password) ==
    Digest(user.password_hash.salt \o password, 1, 7) = user.password_hash.digest

\* a variant of UniqueViolation: the table constrains the username only
UniqueViolation_UsernameOnly(table, id, row) ==
    \E i \in 1..Len(table) : i # id /\ table[i].username = row.username

\* the UNIQUE constraints on username and email: would `row`, stored as row
\* `id` (0: a new row), collide with another row of `table`?
UniqueViolation(table, id, row) ==
    \E i \in 1..Len(table) :
        /\ i # id
        /\ \/ table[i].username = row.username
           \/ table[i].email = row.email

\* User.query.filter_by(email=...).first(): the id of the row, 0 for None
FindByEmail(email) ==
    IF \E i \in 1..Len(users) : users[i].email = email
    THEN CHOOSE i \in 1..Len(users) :
             /\ users[i].email = email
             /\ \A j \in 1..(i - 1) : users[j].email # email
    ELSE 0

\* User.query.filter_by(username=...).first()
FindByUsername(username) ==
    IF \E i \in 1..Len(users) : users[i].username = username
    THEN CHOOSE i \in 1..Len(users) :
             /\ users[i].username = username
             /\ \A j \in 1..(i - 1) : users[j].username # username
    ELSE 0

\* load_user: the row of the id in the session cookie, None when there is none
load_user(user_id) == IF user_id \in 1..Len(users) THEN user_id ELSE 0

\* current_user.is_authenticated for the client's session
is_authenticated(c) == load_user(session[c]) # 0

(***************************************************************************)
(* URLs, flashes and responses.                                            *)
(***************************************************************************)
\* a URL: host "" for a path of this application; next is the ?next= argument
Url(host, path, next) == [host |-> host, path |-> path, next |-> next]

NoUrl == Url("", "", "")

url_for(endpoint) ==
    CASE endpoint = "index"     -> Url("", "/", "")
      [] endpoint = "login"     -> Url("", "/login", "")
      [] endpoint = "register"  -> Url("", "/register", "")
      [] endpoint = "dashboard" -> Url("", "/dashboard", "")
      [] endpoint = "profile"   -> Url("", "/profile", "")
      [] endpoint = "logout"    -> Url("", "/logout", "")

Flash(msg, cat) == [msg |-> msg, cat |-> cat]

NoFlash == Flash("", "")

\* ran: whether the view function's body was entered
Response(c, route, method, status, location, flash, errors, ran) ==
    [client |-> c, route |-> route, method |-> method, status |-> status,
     location |-> location, flash |-> flash, errors |-> errors, ran |-> ran]

NoResponse == Response("", "", "", 0, NoUrl, NoFlash, {}, FALSE)

Form(username, email, password, confirm) ==
    [username |-> username, email |-> email, password |-> password,
     confirm_password |-> confirm]

NoForm == Form("", EmailBlank, <<>>, <<>>)

\* a request: the client address, the route, the method, whether the CSRF
\* token it carries is valid, the form fields and the ?next= argument
Request(c, route, method, csrf, form, nxt) ==
    [client |-> c, route |-> route, method |-> method, csrf |-> csrf,
     form |-> form, next |-> nxt]

NoRequest == Request("", "", "", FALSE, NoForm, NoUrl)

\* CSRFProtect (app.py:19), a before_request hook registered before the
\* limiter: a POST without a valid token is refused with 400
CsrfRefuses(method, csrf) == method = "POST" /\ ~csrf

CsrfResponse(c, route, method) ==
    Response(c, route, method, 400, NoUrl, NoFlash, {}, FALSE)

\* a variant of LimitExceeded: one request too many is let through
LimitExceeded_OffByOne(count, limit) == count > limit + 1

\* the limiter's test after counting the request: `count` requests in the window
LimitExceeded(count, limit) == count > limit

RateLimitResponse(c, route, method) ==
    Response(c, route, method, 429, NoUrl, NoFlash, {}, FALSE)

\* @login_required for an anonymous client: flash and redirect to login_view
\* with the requested path as next
Unauthorized(c, route, method) ==
    Response(c, route, method, 302,
             Url("", "/login", url_for(route).path),
             Flash("Please log in to access this page.", "info"), {}, FALSE)

\* LOGIN_RATE_LIMIT '5/minute' and REGISTER_RATE_LIMIT '3/hour'
LoginLimit == 5

RegisterLimit == 3

(***************************************************************************)
(* Form validation (forms.py).  Each returns the set of <<field, message>> *)
(* errors; the form validates when the set is empty.                       *)
(***************************************************************************)
\* DataRequired(), per field type: an empty string, an empty password, an empty address
UsernameMissing(f) == f.username = ""

EmailMissing(f) == f.email = EmailBlank

PasswordMissing(f) == f.password = <<>>

ConfirmMissing(f) == f.confirm_password = <<>>

\* Email(): a non-empty local part and a non-empty domain
EmailFails(e) == e.local = "" \/ e.domain = ""

\* Length(min=2, max=20)
LengthFails(data) == Len(data) < 2 \/ Len(data) > 20

UsernameErrors(f) ==
    IF UsernameMissing(f) THEN {<<"username", "This field is required.">>}
    ELSE IF LengthFails(f.username)
         THEN {<<"username", "Field must be between 2 and 20 characters long.">>}
    ELSE {}

EmailErrors(f) ==
    IF EmailMissing(f) THEN {<<"email", "This field is required.">>}
    ELSE IF EmailFails(f.email) THEN {<<"email", "Invalid email address.">>}
    ELSE {}

PasswordPolicyErrors(f) ==
    LET v == PasswordValidator(f.password)
    IN  IF v = "ok" THEN {} ELSE {<<"password", v>>}

\* EqualTo('password')
ConfirmErrors(f) ==
    IF f.confirm_password # f.password
    THEN {<<"confirm_password", "Field must be equal to password.">>}
    ELSE {}

\* LoginForm
LoginFormErrors(f) ==
    EmailErrors(f) \cup
    (IF PasswordMissing(f)
     THEN {<<"password", "This field is required.">>} ELSE {})

\* RegistrationForm: the field validators, then validate_username and
\* validate_email on the fields whose chain was not stopped by DataRequired
RegistrationFormErrors(f) ==
    (IF UsernameMissing(f) THEN UsernameErrors(f)
     ELSE UsernameErrors(f) \cup
          (IF FindByUsername(f.username) # 0
           THEN {<<"username", "That username is already taken. Please choose a different one.">>}
           ELSE {}))
    \cup
    (IF EmailMissing(f) THEN EmailErrors(f)
     ELSE EmailErrors(f) \cup
          (IF FindByEmail(f.email) # 0
           THEN {<<"email", "That email is already registered. Please choose a different one.">>}
           ELSE {}))
    \cup
    (IF PasswordMissing(f)
     THEN {<<"password", "This field is required.">>}
     ELSE PasswordPolicyErrors(f))
    \cup
    (IF ConfirmMissing(f)
     THEN {<<"confirm_password", "This field is required.">>}
     ELSE ConfirmErrors(f))

\* ProfileForm: the password field has PasswordValidator and nothing that
\* stops the chain on empty input
ProfileFormErrors(f) ==
    UsernameErrors(f) \cup EmailErrors(f) \cup PasswordPolicyErrors(f)
    \cup ConfirmErrors(f)


(***************************************************************************)
(* /login (app.py:90-107).                                                 *)
(***************************************************************************)
\* a variant of login: an unknown address gets a message of its own
login_DistinctMessages(c, method, form, nxt) ==
    IF is_authenticated(c)
    THEN [uid  |-> session[c],
          resp |-> Response(c, "login", method, 302, url_for("dashboard"), NoFlash, {}, TRUE)]
    ELSE IF method = "POST" /\ LoginFormErrors(form) = {}
    THEN LET user == FindByEmail(form.email)
         IN  IF user # 0 /\ check_password(users[user], form.password)
             THEN [uid  |-> user,
                   resp |-> Response(c, "login", method, 302,
                                     IF nxt # NoUrl THEN nxt ELSE url_for("dashboard"),
                                     Flash("Login successful!", "success"), {}, TRUE)]
             ELSE IF user = 0
             THEN [uid  |-> session[c],
                   resp |-> Response(c, "login", method, 200, NoUrl,
                                     Flash("No account with that email.", "danger"), {}, TRUE)]
             ELSE [uid  |-> session[c],
                   resp |-> Response(c, "login", method, 200, NoUrl,
                                     Flash("Login unsuccessful. Please check email and password.",
                                           "danger"), {}, TRUE)]
    ELSE [uid  |-> session[c],
          resp |-> Response(c, "login", method, 200, NoUrl, NoFlash,
                            IF method = "POST" THEN LoginFormErrors(form) ELSE {}, TRUE)]

\* a variant of login: the user is logged in without the password check
login_NoPasswordCheck(c, method, form, nxt) ==
    IF is_authenticated(c)
    THEN [uid  |-> session[c],
          resp |-> Response(c, "login", method, 302, url_for("dashboard"), NoFlash, {}, TRUE)]
    ELSE IF method = "POST" /\ LoginFormErrors(form) = {}
    THEN LET user == FindByEmail(form.email)
         IN  IF user # 0
             THEN [uid  |-> user,
                   resp |-> Response(c, "login", method, 302,
                                     IF nxt # NoUrl THEN nxt ELSE url_for("dashboard"),
                                     Flash("Login successful!", "success"), {}, TRUE)]
             ELSE [uid  |-> session[c],
                   resp |-> Response(c, "login", method, 200, NoUrl,
                                     Flash("Login unsuccessful. Please check email and password.",
                                           "danger"), {}, TRUE)]
    ELSE [uid  |-> session[c],
          resp |-> Response(c, "login", method, 200, NoUrl, NoFlash,
                            IF method = "POST" THEN LoginFormErrors(form) ELSE {}, TRUE)]

\* the view function: the client's session afterwards and the response
login(c, method, form, nxt) ==
    IF is_authenticated(c)
    THEN [uid  |-> session[c],
          resp |-> Response(c, "login", method, 302, url_for("dashboard"), NoFlash, {}, TRUE)]
    ELSE IF method = "POST" /\ LoginFormErrors(form) = {}
    THEN LET user == FindByEmail(form.email)
         IN  IF user # 0 /\ check_password(users[user], form.password)
             THEN [uid  |-> user,
                   resp |-> Response(c, "login", method, 302,
                                     IF nxt # NoUrl THEN nxt ELSE url_for("dashboard"),
                                     Flash("Login successful!", "success"), {}, TRUE)]
             ELSE [uid  |-> session[c],
                   resp |-> Response(c, "login", method, 200, NoUrl,
                                     Flash("Login unsuccessful. Please check email and password.",
                                           "danger"), {}, TRUE)]
    ELSE [uid  |-> session[c],
          resp |-> Response(c, "login", method, 200, NoUrl, NoFlash,
                            IF method = "POST" THEN LoginFormErrors(form) ELSE {}, TRUE)]

\* a request to /login through the request guard: CSRF, then the limiter
\* (which counts the request), then the view
LoginRequest(c, method, csrf, form, nxt) ==
    IF CsrfRefuses(method, csrf)
    THEN [uid |-> session[c], hits |-> loginHits[c], resp |-> CsrfResponse(c, "login", method)]
    ELSE IF LimitExceeded(loginHits[c] + 1, LoginLimit)
    THEN [uid |-> session[c], hits |-> loginHits[c] + 1,
          resp |-> RateLimitResponse(c, "login", method)]
    ELSE LET o == login(c, method, form, nxt)
         IN  [uid |-> o.uid, hits |-> loginHits[c] + 1, resp |-> o.resp]

Login(c, method, csrf, form, nxt) ==
    /\ resp = NoResponse
    /\ pending[c] = NoPending
    /\ LET o == LoginRequest(c, method, csrf, form, nxt)
       IN  /\ session' = [session EXCEPT ![c] = o.uid]
           /\ loginHits' = [loginHits EXCEPT ![c] = o.hits]
           /\ resp' = o.resp
    /\ req' = Request(c, "login", method, csrf, form, nxt)
    /\ UNCHANGED <<users, rawpw, registerHits, pending>>
    /\ UNCHANGED cfgvars

\* the one-minute window of the client's /login counter ends
ExpireLogin(c) ==
    /\ loginHits[c] > 0
    /\ loginHits' = [loginHits EXCEPT ![c] = 0]
    /\ UNCHANGED <<users, rawpw, session, registerHits, pending, req, resp>>
    /\ UNCHANGED cfgvars

(***************************************************************************)
(* /logout, /dashboard and / (app.py:86-88, 129-139).                      *)
(***************************************************************************)
logout(c) ==
    [uid  |-> Anonymous,
     resp |-> Response(c, "logout", "GET", 302, url_for("index"),
                       Flash("You have been logged out.", "info"), {}, TRUE)]

LogoutRequest(c) ==
    IF ~is_authenticated(c)
    THEN [uid |-> session[c], resp |-> Unauthorized(c, "logout", "GET")]
    ELSE logout(c)

Logout(c) ==
    /\ resp = NoResponse
    /\ pending[c] = NoPending
    /\ LET o == LogoutRequest(c)
       IN  /\ session' = [session EXCEPT ![c] = o.uid]
           /\ resp' = o.resp
    /\ req' = Request(c, "logout", "GET", FALSE, NoForm, NoUrl)
    /\ UNCHANGED <<users, rawpw, loginHits, registerHits, pending>>
    /\ UNCHANGED cfgvars

DashboardRequest(c) ==
    IF ~is_authenticated(c)
    THEN Unauthorized(c, "dashboard", "GET")
    ELSE Response(c, "dashboard", "GET", 200, NoUrl, NoFlash, {}, TRUE)

Dashboard(c) ==
    /\ resp = NoResponse
    /\ pending[c] = NoPending
    /\ resp' = DashboardRequest(c)
    /\ req' = Request(c, "dashboard", "GET", FALSE, NoForm, NoUrl)
    /\ UNCHANGED <<users, rawpw, session, loginHits, registerHits, pending>>
    /\ UNCHANGED cfgvars

Index(c) ==
    /\ resp = NoResponse
    /\ pending[c] = NoPending
    /\ resp' = Response(c, "index", "GET", 200, NoUrl, NoFlash, {}, TRUE)
    /\ req' = Request(c, "index", "GET", FALSE, NoForm, NoUrl)
    /\ UNCHANGED <<users, rawpw, session, loginHits, registerHits, pending>>
    /\ UNCHANGED cfgvars


(***************************************************************************)
(* /register (app.py:109-127).  The view queries the table while the form  *)
(* validates and writes it at commit; requests of other clients may be     *)
(* served between the two, so the view is two steps.                       *)
(***************************************************************************)
\* up to form.validate_on_submit(): `wait` holds the form when it validated
\* and the view goes on to insert; otherwise the response is final
register(c, method, form) ==
    IF is_authenticated(c)
    THEN [wait |-> NoPending,
          resp |-> Response(c, "register", method, 302, url_for("dashboard"), NoFlash, {}, TRUE)]
    ELSE IF method = "POST" /\ RegistrationFormErrors(form) = {}
    THEN [wait |-> [username |-> form.username, email |-> form.email,
                    password |-> form.password],
          resp |-> NoResponse]
    ELSE [wait |-> NoPending,
          resp |-> Response(c, "register", method, 200, NoUrl, NoFlash,
                            IF method = "POST" THEN RegistrationFormErrors(form) ELSE {}, TRUE)]

RegisterRequest(c, method, csrf, form) ==
    IF CsrfRefuses(method, csrf)
    THEN [wait |-> NoPending, hits |-> registerHits[c],
          resp |-> CsrfResponse(c, "register", method)]
    ELSE IF LimitExceeded(registerHits[c] + 1, RegisterLimit)
    THEN [wait |-> NoPending, hits |-> registerHits[c] + 1,
          resp |-> RateLimitResponse(c, "register", method)]
    ELSE LET o == register(c, method, form)
         IN  [wait |-> o.wait, hits |-> registerHits[c] + 1, resp |-> o.resp]

Register(c, method, csrf, form) ==
    /\ resp = NoResponse
    /\ pending[c] = NoPending
    /\ LET o == RegisterRequest(c, method, csrf, form)
       IN  /\ pending' = [pending EXCEPT ![c] = o.wait]
           /\ registerHits' = [registerHits EXCEPT ![c] = o.hits]
           /\ resp' = o.resp
           /\ req' = IF o.wait # NoPending THEN NoRequest
                     ELSE Request(c, "register", method, csrf, form, NoUrl)
    /\ UNCHANGED <<users, rawpw, session, loginHits>>
    /\ UNCHANGED cfgvars

\* User(...), db.session.add, db.session.commit, flash, redirect: the insert
\* fails on a unique constraint with an IntegrityError the view does not
\* catch, which the framework answers with 500
register_commit(c, salt) ==
    LET f   == pending[c]
        row == [username |-> f.username, email |-> f.email,
                password_hash |-> generate_password_hash(f.password, salt)]
    IN  IF UniqueViolation(users, 0, row)
        THEN [users |-> users, rawpw |-> rawpw,
              resp  |-> Response(c, "register", "POST", 500, NoUrl, NoFlash, {}, TRUE)]
        ELSE [users |-> Append(users, row), rawpw |-> Append(rawpw, f.password),
              resp  |-> Response(c, "register", "POST", 302, url_for("login"),
                                 Flash("Your account has been created! You can now log in.",
                                       "success"), {}, TRUE)]

RegisterCommit(c, salt) ==
    /\ resp = NoResponse
    /\ pending[c] # NoPending
    /\ LET o == register_commit(c, salt)
       IN  /\ users' = o.users
           /\ rawpw' = o.rawpw
           /\ resp' = o.resp
    /\ req' = Request(c, "register", "POST", TRUE,
                      Form(pending[c].username, pending[c].email,
                           pending[c].password, pending[c].password), NoUrl)
    /\ pending' = [pending EXCEPT ![c] = NoPending]
    /\ UNCHANGED <<session, loginHits, registerHits>>
    /\ UNCHANGED cfgvars

\* the one-hour window of the client's /register counter ends
ExpireRegister(c) ==
    /\ registerHits[c] > 0
    /\ registerHits' = [registerHits EXCEPT ![c] = 0]
    /\ UNCHANGED <<users, rawpw, session, loginHits, pending, req, resp>>
    /\ UNCHANGED cfgvars

(***************************************************************************)
(* /profile (app.py:141-161).                                              *)
(***************************************************************************)
\* a variant of profile: the password is assigned and committed before the
\* form is validated, whatever the field holds
profile_PasswordBeforeValidation(c, method, form, salt) ==
    LET uid == session[c]
        old == [users[uid] EXCEPT
                   !.password_hash = IF method = "POST"
                                     THEN generate_password_hash(form.password, salt)
                                     ELSE @]
        row == [username |-> form.username, email |-> form.email,
                password_hash |-> old.password_hash]
        set == [users EXCEPT ![uid] = old]
    IN  IF method = "POST" /\ ProfileFormErrors(form) = {}
        THEN IF UniqueViolation(users, uid, row)
             THEN [users |-> set, rawpw |-> rawpw,
                   resp  |-> Response(c, "profile", method, 500, NoUrl, NoFlash, {}, TRUE)]
             ELSE [users |-> [users EXCEPT ![uid] = row],
                   rawpw |-> IF form.password # <<>>
                             THEN [rawpw EXCEPT ![uid] = form.password] ELSE rawpw,
                   resp  |-> Response(c, "profile", method, 302, url_for("profile"),
                                      Flash("Your profile has been updated!", "success"),
                                      {}, TRUE)]
        ELSE [users |-> set, rawpw |-> rawpw,
              resp  |-> Response(c, "profile", method, 200, NoUrl, NoFlash,
                                 IF method = "POST" THEN ProfileFormErrors(form) ELSE {}, TRUE)]

\* the view function for the authenticated client: the table afterwards and
\* the response
profile(c, method, form, salt) ==
    LET uid == session[c]
        old == users[uid]
        row == [username |-> form.username, email |-> form.email,
                password_hash |-> IF form.password # <<>>
                                  THEN generate_password_hash(form.password, salt)
                                  ELSE old.password_hash]
    IN  IF method = "POST" /\ ProfileFormErrors(form) = {}
        THEN IF UniqueViolation(users, uid, row)
             THEN [users |-> users, rawpw |-> rawpw,
                   resp  |-> Response(c, "profile", method, 500, NoUrl, NoFlash, {}, TRUE)]
             ELSE [users |-> [users EXCEPT ![uid] = row],
                   rawpw |-> IF form.password # <<>>
                             THEN [rawpw EXCEPT ![uid] = form.password] ELSE rawpw,
                   resp  |-> Response(c, "profile", method, 302, url_for("profile"),
                                      Flash("Your profile has been updated!", "success"),
                                      {}, TRUE)]
        ELSE [users |-> users, rawpw |-> rawpw,
              resp  |-> Response(c, "profile", method, 200, NoUrl, NoFlash,
                                 IF method = "POST" THEN ProfileFormErrors(form) ELSE {}, TRUE)]

ProfileRequest(c, method, csrf, form, salt) ==
    IF CsrfRefuses(method, csrf)
    THEN [users |-> users, rawpw |-> rawpw, resp |-> CsrfResponse(c, "profile", method)]
    ELSE IF ~is_authenticated(c)
    THEN [users |-> users, rawpw |-> rawpw, resp |-> Unauthorized(c, "profile", method)]
    ELSE profile(c, method, form, salt)

Profile(c, method, csrf, form, salt) ==
    /\ resp = NoResponse
    /\ pending[c] = NoPending
    /\ LET o == ProfileRequest(c, method, csrf, form, salt)
       IN  /\ users' = o.users
           /\ rawpw' = o.rawpw
           /\ resp' = o.resp
    /\ req' = Request(c, "profile", method, csrf, form, NoUrl)
    /\ UNCHANGED <<session, loginHits, registerHits, pending>>
    /\ UNCHANGED cfgvars

(***************************************************************************)
(* The requests the clients send.                                          *)
(***************************************************************************)
\* registered or not, right or wrong password, and one malformed field each
LoginForms ==
    {Form("", e, p, <<>>) : e \in {EmailA, EmailB}, p \in {PwA, PwB}}
    \cup {Form("", EmailMalformed, PwA, <<>>), Form("", EmailA, PwBlank, <<>>)}

\* every combination of the well-formed values, and one malformed field each
RegisterForms ==
    {Form(u, e, PwA, PwA) : u \in {"al", "bo"}, e \in {EmailA, EmailB}}
    \cup {Form("x", EmailA, PwA, PwA), Form("al", EmailMalformed, PwA, PwA),
          Form("al", EmailA, PwWeak, PwWeak), Form("al", EmailA, PwA, PwB)}

ProfileForms ==
    {Form(u, e, p, p) : u \in {"al", "bo"}, e \in {EmailA, EmailB}, p \in {PwBlank, PwB}}
    \cup {Form("x", EmailA, PwBlank, PwBlank), Form("al", EmailMalformed, PwBlank, PwBlank),
          Form("al", EmailA, PwWeak, PwWeak), Form("al", EmailA, PwB, PwA)}

\* ?next=: absent, a path of the application, a URL on another host
Nexts == {NoUrl, Url("", "/profile", ""), Url("evil.example", "/", "")}

\* a GET carries no form; a POST carries a form and a CSRF token, valid or not
\* (a POST with an invalid token is refused whatever its form)
Requests(forms) ==
    {[method |-> "GET", csrf |-> FALSE, form |-> NoForm],
     [method |-> "POST", csrf |-> FALSE, form |-> NoForm]}
    \cup {[method |-> "POST", csrf |-> TRUE, form |-> f] : f \in forms}

\* the response is written out and the next request is read
Respond ==
    /\ resp # NoResponse
    /\ resp' = NoResponse
    /\ req' = NoRequest
    /\ UNCHANGED <<users, rawpw, session, loginHits, registerHits, pending>>
    /\ UNCHANGED cfgvars

(***************************************************************************)
(* Specifications.                                                         *)
(***************************************************************************)
InitWeb ==
    /\ users = <<>>
    /\ rawpw = <<>>
    /\ session = [c \in Clients |-> Anonymous]
    /\ loginHits = [c \in Clients |-> 0]
    /\ registerHits = [c \in Clients |-> 0]
    /\ pending = [c \in Clients |-> NoPending]
    /\ req = NoRequest
    /\ resp = NoResponse

DefaultEnv == [FLASK_ENV |-> Unset, SECRET_KEY |-> Unset, MIN_PASSWORD_LENGTH |-> Unset]

\* the application started with the default (development) configuration
InitServing ==
    /\ env = DefaultEnv
    /\ phase = "serving"
    /\ appcfg = Config(DefaultEnv)
    /\ candidate = <<>>
    /\ verdict = "none"

RECURSIVE SumOver(_, _)
SumOver(f, S) ==
    IF S = {} THEN 0
    ELSE LET x == CHOOSE y \in S : TRUE IN f[x] + SumOver(f, S \ {x})

\* requests the limiter has counted in the windows that are open
Burst == SumOver(loginHits, Clients) + SumOver(registerHits, Clients)

\* Spec explores at most MaxBurst counted requests between window expiries
MaxBurst == 1

\* SpecLimiter explores up to MaxOver counted requests past the login limit
MaxOver == 2

Init == InitServing /\ InitWeb

Next ==
    \/ \E c \in Clients, r \in Requests(LoginForms), nxt \in Nexts :
           Burst < MaxBurst /\ Login(c, r.method, r.csrf, r.form, nxt)
    \/ \E c \in Clients : ExpireLogin(c)
    \/ \E c \in Clients : Logout(c)
    \/ \E c \in Clients : Dashboard(c)
    \/ \E c \in Clients : Index(c)
    \/ \E c \in Clients, r \in Requests(RegisterForms) :
           Burst < MaxBurst /\ Register(c, r.method, r.csrf, r.form)
    \/ \E c \in Clients, salt \in Salts : RegisterCommit(c, salt)
    \/ \E c \in Clients : ExpireRegister(c)
    \/ \E c \in Clients, r \in Requests(ProfileForms), salt \in Salts :
           Profile(c, r.method, r.csrf, r.form, salt)
    \/ Respond

Spec == Init /\ [][Next]_vars

\* ---- the limiter on /login, with one user registered
RegisteredRow ==
    [username |-> "al", email |-> EmailA,
     password_hash |-> generate_password_hash(PwA, <<"$", "a">>)]

InitLimiter ==
    /\ InitServing
    /\ users = <<RegisteredRow>>
    /\ rawpw = <<PwA>>
    /\ session = [c \in Clients |-> Anonymous]
    /\ loginHits = [c \in Clients |-> 0]
    /\ registerHits = [c \in Clients |-> 0]
    /\ pending = [c \in Clients |-> NoPending]
    /\ req = NoRequest
    /\ resp = NoResponse

NextLimiter ==
    \/ \E c \in Clients, r \in Requests(LoginForms), nxt \in Nexts :
           loginHits[c] < LoginLimit + MaxOver /\ Login(c, r.method, r.csrf, r.form, nxt)
    \/ \E c \in Clients : ExpireLogin(c)
    \/ \E c \in Clients : Logout(c)
    \/ Respond

SpecLimiter == InitLimiter /\ [][NextLimiter]_vars

\* ---- start-up and the password policy, over environments and candidates
InitConfig ==
    /\ env \in [FLASK_ENV : FlaskEnvs, SECRET_KEY : SecretKeys,
                MIN_PASSWORD_LENGTH : MinLengths]
    /\ phase = "init"
    /\ appcfg = NoConfig
    /\ candidate \in Candidates
    /\ verdict = "none"
    /\ InitWeb

NextConfig == Startup \/ ValidatePassword

SpecConfig == InitConfig /\ [][NextConfig]_vars


(***************************************************************************)
(* The claims.                                                             *)
(***************************************************************************)
\* the password policy as the specification states it, for a minimum length
PolicyAccepts(password, minimum) ==
    /\ Len(password) >= minimum
    /\ \E i \in 1..Len(password) : password[i] \in UpperChars
    /\ \E i \in 1..Len(password) : password[i] \in LowerChars
    /\ \E i \in 1..Len(password) : password[i] \in DigitChars
    /\ \E i \in 1..Len(password) : password[i] \in SpecialChars

\* C1: for every candidate password and every configured MIN_PASSWORD_LENGTH,
\* PasswordValidator accepts the password if and only if it is at least the
\* configured minimum long and holds an uppercase letter, a lowercase letter,
\* a digit and a symbol of the fixed set.
C1_AcceptsIffConfiguredPolicy ==
    verdict # "none" =>
        ((verdict = "ok") <=> PolicyAccepts(candidate, appcfg.MIN_PASSWORD_LENGTH))

\* C2: when two valid registrations carrying the same email are in flight, in
\* any interleaving of their checks and commits, the one that commits second
\* stores nothing (one record with that email remains) and finishes with the
\* form redisplayed and a field-level duplicate message on the email field.
C2_SecondRegistrationGetsFieldError ==
    [][\A c \in Clients :
          (/\ pending[c] # NoPending
           /\ pending'[c] = NoPending
           /\ \E i \in 1..Len(users) : users[i].email = pending[c].email)
          => /\ users' = users
             /\ resp'.status = 200
             /\ \E e \in resp'.errors : e[1] = "email"]_vars

\* C3: after a successful login POST the redirect target is the dashboard or
\* the caller's next value, and that value is local to the application; the
\* response never redirects to another host.
C3_LoginRedirectIsLocal ==
    (req.route = "login" /\ resp.flash = Flash("Login successful!", "success"))
        => /\ resp.location.host = ""
           /\ \/ resp.location = url_for("dashboard")
              \/ resp.location = req.next

\* C4: for an authenticated user, a profile POST with a blank password field
\* and a valid username and email (held by no other user) succeeds and stores
\* the submitted username and email.
C4_BlankPasswordProfileUpdateSucceeds ==
    (/\ req.route = "profile" /\ req.method = "POST" /\ req.csrf
     /\ is_authenticated(req.client)
     /\ req.form.password = <<>> /\ req.form.confirm_password = <<>>
     /\ UsernameErrors(req.form) = {} /\ EmailErrors(req.form) = {}
     /\ \A i \in 1..Len(users) :
            i # session[req.client] =>
                /\ users[i].username # req.form.username
                /\ users[i].email # req.form.email)
    => /\ resp.status = 302
       /\ resp.flash = Flash("Your profile has been updated!", "success")
       /\ users[session[req.client]].username = req.form.username
       /\ users[session[req.client]].email = req.form.email

\* the step answers a profile POST whose password field is blank
BlankPasswordProfilePost ==
    /\ req = NoRequest
    /\ req'.route = "profile" /\ req'.method = "POST"
    /\ req'.form.password = <<>>

\* C5: a profile POST whose password field is blank leaves every stored
\* password hash unchanged, and in every state the raw password a user last
\* set still verifies against the stored hash.
C5_BlankPasswordKeepsHash ==
    [][/\ \A i \in 1..Len(users') : check_password(users'[i], rawpw'[i])
       /\ BlankPasswordProfilePost =>
              /\ Len(users') = Len(users)
              /\ rawpw' = rawpw
              /\ \A i \in 1..Len(users) :
                     users'[i].password_hash = users[i].password_hash]_vars

C5_Witness ==
    /\ req.route = "profile" /\ req.method = "POST" /\ req.csrf
    /\ req.form.password = <<>>
    /\ is_authenticated(req.client)
    /\ resp.ran
    /\ check_password(users[session[req.client]], rawpw[session[req.client]])

\* the form names a registered email and a password that does not verify
WrongPassword(f) ==
    /\ LoginFormErrors(f) = {}
    /\ FindByEmail(f.email) # 0
    /\ ~check_password(users[FindByEmail(f.email)], f.password)

\* the form names an email no user has
UnknownEmail(f) ==
    /\ LoginFormErrors(f) = {}
    /\ FindByEmail(f.email) = 0

\* C6: a login POST with a registered email and a wrong password and one with
\* an unregistered email have the same outcome: the same flash message and
\* category, the login form redisplayed, the session unchanged (Anonymous for
\* an anonymous client).
C6_LoginFailuresIndistinguishable ==
    req = NoRequest =>
        \A c \in Clients, k \in BOOLEAN, nxt \in Nexts, f1 \in LoginForms, f2 \in LoginForms :
            (WrongPassword(f1) /\ UnknownEmail(f2)) =>
                LET o1 == LoginRequest(c, "POST", k, f1, nxt)
                    o2 == LoginRequest(c, "POST", k, f2, nxt)
                IN  /\ o1 = o2
                    /\ o1.uid = session[c]
                    /\ (k /\ session[c] = Anonymous /\ o1.resp.ran) =>
                           /\ o1.resp.status = 200
                           /\ o1.resp.flash.cat = "danger"

C6_Witness ==
    /\ req.route = "login" /\ req.method = "POST" /\ req.csrf
    /\ WrongPassword(req.form)
    /\ \E f \in LoginForms : UnknownEmail(f)
    /\ resp.status = 200 /\ resp.flash.cat = "danger"
    /\ session[req.client] = Anonymous

\* C7: an application started in the production environment never serves
\* requests with the development key as its SECRET_KEY.
C7_ProductionRefusesDevKey ==
    ~(/\ phase = "serving"
      /\ appcfg.FLASK_ENV = "production"
      /\ appcfg.SECRET_KEY = DevKey)

C10_UsernamesAndEmailsUnique ==
    \A i \in 1..Len(users), j \in 1..Len(users) :
        i # j => /\ users[i].username # users[j].username
                 /\ users[i].email # users[j].email

C10_Witness ==
    /\ req.route = "profile" /\ req.method = "POST" /\ req.csrf
    /\ is_authenticated(req.client)
    /\ ProfileFormErrors(req.form) = {}
    /\ \E i \in 1..Len(users) :
           /\ i # session[req.client]
           /\ users[i].email = req.form.email
    /\ Len(users) = 2

====
